---- MODULE Spec2Model ----
(***************************************************************************)
(* A model of `stack`: a configuration of stacks with declared             *)
(* dependencies is loaded and validated (config.rs), a command selects     *)
(* stacks and orders them (config.rs, program.rs), and one external        *)
(* process per stack is spawned and waited for, fail-fast (commands.rs,    *)
(* exec.rs).                                                               *)
(*                                                                         *)
(* Stack keys are the integers 1..NumStacks; their integer order stands    *)
(* for the ascending string order of the BTreeMap/BTreeSet the code uses.  *)
(***************************************************************************)
EXTENDS Integers, Sequences, FiniteSets, TLC

\* ---------------------------------------------------------------- bounds
\* Number of configured stacks.
NumStacks == 3
\* Largest number of declared depends_on edges in a configuration.
MaxEdges == 3
\* Largest number of names in a request.
MaxRequested == 2

\* ------------------------------------------------------------ vocabulary
Keys == 1..NumStacks
\* Names that are no configured stack, one sorting before and one after
\* every key.
UnknownNames == {0, NumStacks + 1}
Names == Keys \cup UnknownNames

NoError == [kind |-> "none"]
IsError(e) == e.kind # "none"
EmptyEnv == [v \in {} |-> 0]

VARIABLES
    raw,                 \* the deserialized document: key -> authored entry
    config_environment,  \* Config.environment
    config_command,      \* Config.command, the command template
    stacks,              \* Config.stacks as deserialize_stacks leaves it
    pc,                  \* where run() of main.rs stands
    verb,                \* the subcommand (program.rs Commands)
    requested,           \* GlobalArguments::stacks()
    cli_args,            \* the caller's trailing arguments
    exec_options,        \* the ExecOptions of the dispatch under way
    queue,               \* the ordered list the dispatch loop walks
    pos,                 \* index in queue of the stack to execute next
    downed,              \* restart: the list `down` was dispatched over
    invoked,             \* every spawn attempted so far, in order
    error,               \* the Err returned by run(), or NoError
    query,               \* the ordering query last applied to the configuration
    answer               \* what that query returned

vars == <<raw, config_environment, config_command, stacks, pc, verb, requested,
          cli_args, exec_options, queue, pos, downed, invoked, error, query,
          answer>>

\* ------------------------------------------------------------- utilities
RECURSIVE Ascending(_)
\* The elements of a finite set of integers in ascending order
\* (the iteration order of a BTreeSet / BTreeMap).
Ascending(S) ==
    IF S = {} THEN <<>>
    ELSE LET m == CHOOSE x \in S : \A y \in S : x <= y
         IN  <<m>> \o Ascending(S \ {m})

\* reverse (program.rs) and the .rev() adaptor.
reverse(s) == [i \in 1..Len(s) |-> s[Len(s) + 1 - i]]

Range(s) == {s[i] : i \in 1..Len(s)}

\* ----------------------------------------------------------- config.rs
RECURSIVE check_dependencies(_, _, _)
RECURSIVE check_dependencies_loop(_, _, _, _)
\* Mutant: `seen.remove(&stack.key)` is left out, so seen holds every stack
\* visited instead of the stacks on the current path.
check_dependencies_loop_NoRemove(key, deps, stks, seen) ==
    IF deps = <<>>
    THEN [error |-> NoError, seen |-> seen]
    ELSE LET dep == Head(deps) IN
         IF dep \in seen
         THEN [error |-> [kind |-> "DependencyCycle", key |-> key, dep |-> dep],
               seen  |-> seen]
         ELSE IF dep \in DOMAIN stks
              THEN LET inner == check_dependencies(dep, stks, seen) IN
                   IF IsError(inner.error)
                   THEN inner
                   ELSE check_dependencies_loop(key, Tail(deps), stks, inner.seen)
              ELSE [error |-> [kind |-> "DanglingDependency", dep |-> dep],
                    seen  |-> seen]

\* Mutant: the cycle message names the edge the wrong way round.
check_dependencies_loop_SwappedEdge(key, deps, stks, seen) ==
    IF deps = <<>>
    THEN [error |-> NoError, seen |-> seen \ {key}]
    ELSE LET dep == Head(deps) IN
         IF dep \in seen
         THEN [error |-> [kind |-> "DependencyCycle", key |-> dep, dep |-> key],
               seen  |-> seen]
         ELSE IF dep \in DOMAIN stks
              THEN LET inner == check_dependencies(dep, stks, seen) IN
                   IF IsError(inner.error)
                   THEN inner
                   ELSE check_dependencies_loop(key, Tail(deps), stks, inner.seen)
              ELSE [error |-> [kind |-> "DanglingDependency", dep |-> dep],
                    seen  |-> seen]

\* Mutant: the dangling message names the stack that declares the dependency.
check_dependencies_loop_NamesStack(key, deps, stks, seen) ==
    IF deps = <<>>
    THEN [error |-> NoError, seen |-> seen \ {key}]
    ELSE LET dep == Head(deps) IN
         IF dep \in seen
         THEN [error |-> [kind |-> "DependencyCycle", key |-> key, dep |-> dep],
               seen  |-> seen]
         ELSE IF dep \in DOMAIN stks
              THEN LET inner == check_dependencies(dep, stks, seen) IN
                   IF IsError(inner.error)
                   THEN inner
                   ELSE check_dependencies_loop(key, Tail(deps), stks, inner.seen)
              ELSE [error |-> [kind |-> "DanglingDependency", dep |-> key],
                    seen  |-> seen]

\* The body of `for dep in stack.dependencies.iter()`, deps being the
\* dependencies not yet visited; returns the Result and the `seen` set as the
\* call leaves it.
check_dependencies_loop(key, deps, stks, seen) ==
    IF deps = <<>>
    THEN [error |-> NoError, seen |-> seen \ {key}]
    ELSE LET dep == Head(deps) IN
         IF dep \in seen
         THEN [error |-> [kind |-> "DependencyCycle", key |-> key, dep |-> dep],
               seen  |-> seen]
         ELSE IF dep \in DOMAIN stks
              THEN LET inner == check_dependencies(dep, stks, seen) IN
                   IF IsError(inner.error)
                   THEN inner
                   ELSE check_dependencies_loop(key, Tail(deps), stks, inner.seen)
              ELSE [error |-> [kind |-> "DanglingDependency", dep |-> dep],
                    seen  |-> seen]

check_dependencies(key, stks, seen) ==
    check_dependencies_loop(key, Ascending(stks[key].dependencies), stks,
                            seen \cup {key})

\* `stack.dependants.insert(key)` for every dependency of key.
AddDependants(stks, key) ==
    [k \in DOMAIN stks |->
        IF k \in stks[key].dependencies
        THEN [stks[k] EXCEPT !.dependants = @ \cup {key}]
        ELSE stks[k]]

RECURSIVE deserialize_stacks_loop(_, _, _)
\* `for key in keys`: check the stack, then register it with its dependencies.
deserialize_stacks_loop(keys, stks, seen) ==
    IF keys = <<>>
    THEN [error |-> NoError, stacks |-> stks]
    ELSE LET key == Head(keys)
             chk == check_dependencies(key, stks, seen)
         IN  IF IsError(chk.error)
             THEN [error |-> chk.error, stacks |-> stks]
             ELSE deserialize_stacks_loop(Tail(keys), AddDependants(stks, key),
                                          chk.seen)

\* Mutant: the name is set to the key whether or not the entry gives one.
deserialize_stacks_NameIsKey(doc) ==
    LET named == [k \in DOMAIN doc |->
                    [key          |-> k,
                     name         |-> ToString(k),
                     dependencies |-> doc[k].depends_on,
                     dependants   |-> {},
                     environment  |-> doc[k].environment]]
    IN  deserialize_stacks_loop(Ascending(DOMAIN doc), named, {})

\* The key and the default name of every entry, then the checks.
deserialize_stacks(doc) ==
    LET named == [k \in DOMAIN doc |->
                    [key          |-> k,
                     name         |-> IF doc[k].name = "" THEN ToString(k)
                                      ELSE doc[k].name,
                     dependencies |-> doc[k].depends_on,
                     dependants   |-> {},
                     environment  |-> doc[k].environment]]
    IN  deserialize_stacks_loop(Ascending(DOMAIN doc), named, {})

RECURSIVE add_dependencies(_, _, _)
RECURSIVE add_dependencies_loop(_, _, _)
\* Mutant: a dependency is inserted and not expanded in its turn.
add_dependencies_loop_NoRecursion(stks, deps, keys) ==
    IF deps = <<>> THEN keys
    ELSE add_dependencies_loop(stks, Tail(deps), keys \cup {Head(deps)})

\* `for dep in stack.dependencies.iter()`: a dependency not yet in keys is
\* inserted and expanded in its turn.
add_dependencies_loop(stks, deps, keys) ==
    IF deps = <<>> THEN keys
    ELSE LET dep == Head(deps) IN
         IF dep \in keys
         THEN add_dependencies_loop(stks, Tail(deps), keys)
         ELSE add_dependencies_loop(stks, Tail(deps),
                  add_dependencies(stks, dep, keys \cup {dep}))

add_dependencies(stks, stack, keys) ==
    add_dependencies_loop(stks, Ascending(stks[stack].dependencies), keys)

RECURSIVE add_dependants(_, _, _)
RECURSIVE add_dependants_loop(_, _, _)
\* Mutant: the loop of add_dependencies, copied unchanged: it walks the
\* dependencies of the stack.
add_dependants_loop_WalksDependencies(stks, deps, keys) ==
    IF deps = <<>> THEN keys
    ELSE LET dep == Head(deps) IN
         IF dep \in keys
         THEN add_dependants_loop(stks, Tail(deps), keys)
         ELSE add_dependants_loop(stks, Tail(deps),
                  add_dependencies(stks, dep, keys \cup {dep}))

\* `for dep in stack.dependants.iter()`
add_dependants_loop(stks, deps, keys) ==
    IF deps = <<>> THEN keys
    ELSE LET dep == Head(deps) IN
         IF dep \in keys
         THEN add_dependants_loop(stks, Tail(deps), keys)
         ELSE add_dependants_loop(stks, Tail(deps),
                  add_dependants(stks, dep, keys \cup {dep}))

add_dependants(stks, stack, keys) ==
    add_dependants_loop(stks, Ascending(stks[stack].dependants), keys)

RECURSIVE stack_keys_loop(_, _, _)
\* Mutant: a name met a second time takes its key out of the set again.
stack_keys_loop_RepeatRemoves(stks, list, keys) ==
    IF list = <<>>
    THEN [error |-> NoError,
          keys  |-> IF keys = {} THEN DOMAIN stks ELSE keys]
    ELSE IF Head(list) \in DOMAIN stks
         THEN stack_keys_loop(stks, Tail(list),
                              IF Head(list) \in keys
                              THEN keys \ {Head(list)}
                              ELSE keys \cup {Head(list)})
         ELSE [error |-> [kind |-> "UnknownStack", name |-> Head(list)],
               keys  |-> {}]

\* Mutant: a name that is no key is passed over.
stack_keys_loop_SkipsUnknown(stks, list, keys) ==
    IF list = <<>>
    THEN [error |-> NoError,
          keys  |-> IF keys = {} THEN DOMAIN stks ELSE keys]
    ELSE IF Head(list) \in DOMAIN stks
         THEN stack_keys_loop(stks, Tail(list), keys \cup {Head(list)})
         ELSE stack_keys_loop(stks, Tail(list), keys)

\* Mutant: `if keys.is_empty()` is left out, an empty request selects nothing.
stack_keys_loop_EmptyStaysEmpty(stks, list, keys) ==
    IF list = <<>>
    THEN [error |-> NoError, keys |-> keys]
    ELSE IF Head(list) \in DOMAIN stks
         THEN stack_keys_loop(stks, Tail(list), keys \cup {Head(list)})
         ELSE [error |-> [kind |-> "UnknownStack", name |-> Head(list)],
               keys  |-> {}]

\* `for key in list`: the first name that is no key ends the call.
stack_keys_loop(stks, list, keys) ==
    IF list = <<>>
    THEN [error |-> NoError,
          keys  |-> IF keys = {} THEN DOMAIN stks ELSE keys]
    ELSE IF Head(list) \in DOMAIN stks
         THEN stack_keys_loop(stks, Tail(list), keys \cup {Head(list)})
         ELSE [error |-> [kind |-> "UnknownStack", name |-> Head(list)],
               keys  |-> {}]

stack_keys(stks, list) == stack_keys_loop(stks, list, {})

RECURSIVE ExpandDependencies(_, _, _)
\* `for key in keys.clone().iter() { add_dependencies(...) }`
ExpandDependencies(stks, todo, keys) ==
    IF todo = <<>> THEN keys
    ELSE ExpandDependencies(stks, Tail(todo),
                            add_dependencies(stks, Head(todo), keys))

RECURSIVE ExpandDependants(_, _, _)
\* `for key in keys.clone().iter() { add_dependants(...) }`
ExpandDependants(stks, todo, keys) ==
    IF todo = <<>> THEN keys
    ELSE ExpandDependants(stks, Tail(todo),
                          add_dependants(stks, Head(todo), keys))

\* The closure step of stacks_with_dependencies.
DependenciesClosure(stks, keys) ==
    IF Cardinality(keys) < Cardinality(DOMAIN stks)
    THEN ExpandDependencies(stks, Ascending(keys), keys)
    ELSE keys

\* The closure step of stacks_with_dependants.
DependantsClosure(stks, keys) ==
    IF Cardinality(keys) < Cardinality(DOMAIN stks)
    THEN ExpandDependants(stks, Ascending(keys), keys)
    ELSE keys

RECURSIVE ScanDependencies(_, _, _, _)
\* Mutant: the test `!keys.contains(dep)` loses its negation.
ScanDependencies_LostNegation(stks, keys, todo, st) ==
    IF todo = <<>> THEN st
    ELSE LET key == Head(todo) IN
         IF key \in st.added
         THEN ScanDependencies(stks, keys, Tail(todo), st)
         ELSE IF \A dep \in stks[key].dependencies :
                     dep \in st.added \/ dep \in keys
              THEN ScanDependencies(stks, keys, Tail(todo),
                       [added  |-> st.added \cup {key},
                        stacks |-> Append(st.stacks, key)])
              ELSE ScanDependencies(stks, keys, Tail(todo), st)

\* One `for key in keys.iter().rev()` of stacks_with_dependencies; st holds
\* the `added` set and the `stacks` vector.
ScanDependencies(stks, keys, todo, st) ==
    IF todo = <<>> THEN st
    ELSE LET key == Head(todo) IN
         IF key \in st.added
         THEN ScanDependencies(stks, keys, Tail(todo), st)
         ELSE IF \A dep \in stks[key].dependencies :
                     dep \in st.added \/ dep \notin keys
              THEN ScanDependencies(stks, keys, Tail(todo),
                       [added  |-> st.added \cup {key},
                        stacks |-> Append(st.stacks, key)])
              ELSE ScanDependencies(stks, keys, Tail(todo), st)

RECURSIVE OrderDependencies(_, _, _)
\* Mutant: the scan is `keys.iter()`, ascending, with `.rev()` left out.
OrderDependencies_AscendingScan(stks, keys, st) ==
    IF Len(st.stacks) = Cardinality(keys) THEN st.stacks
    ELSE LET next == ScanDependencies(stks, keys, Ascending(keys), st)
         IN  IF next = st THEN st.stacks
             ELSE OrderDependencies(stks, keys, next)

\* `while stacks.len() != keys.len()`. A scan that places nothing is repeated
\* for ever by the code; the operator then stops with what is placed.
OrderDependencies(stks, keys, st) ==
    IF Len(st.stacks) = Cardinality(keys) THEN st.stacks
    ELSE LET next == ScanDependencies(stks, keys, reverse(Ascending(keys)), st)
         IN  IF next = st THEN st.stacks
             ELSE OrderDependencies(stks, keys, next)

RECURSIVE ScanDependants(_, _, _, _)
\* Mutant: the test is the one of stacks_with_dependencies, copied unchanged.
ScanDependants_TestsDependencies(stks, keys, todo, st) ==
    IF todo = <<>> THEN st
    ELSE LET key == Head(todo) IN
         IF key \in st.added
         THEN ScanDependants(stks, keys, Tail(todo), st)
         ELSE IF \A dep \in stks[key].dependencies :
                     dep \in st.added \/ dep \notin keys
              THEN ScanDependants(stks, keys, Tail(todo),
                       [added  |-> st.added \cup {key},
                        stacks |-> <<key>> \o st.stacks])
              ELSE ScanDependants(stks, keys, Tail(todo), st)

\* Mutant: the stack is pushed at the end instead of inserted at index 0.
ScanDependants_Push(stks, keys, todo, st) ==
    IF todo = <<>> THEN st
    ELSE LET key == Head(todo) IN
         IF key \in st.added
         THEN ScanDependants(stks, keys, Tail(todo), st)
         ELSE IF \A dep \in stks[key].dependants :
                     dep \in st.added \/ dep \notin keys
              THEN ScanDependants(stks, keys, Tail(todo),
                       [added  |-> st.added \cup {key},
                        stacks |-> Append(st.stacks, key)])
              ELSE ScanDependants(stks, keys, Tail(todo), st)

\* One `for key in keys.iter().rev()` of stacks_with_dependants.
ScanDependants(stks, keys, todo, st) ==
    IF todo = <<>> THEN st
    ELSE LET key == Head(todo) IN
         IF key \in st.added
         THEN ScanDependants(stks, keys, Tail(todo), st)
         ELSE IF \A dep \in stks[key].dependants :
                     dep \in st.added \/ dep \notin keys
              THEN ScanDependants(stks, keys, Tail(todo),
                       [added  |-> st.added \cup {key},
                        stacks |-> <<key>> \o st.stacks])
              ELSE ScanDependants(stks, keys, Tail(todo), st)

RECURSIVE OrderDependants(_, _, _)
OrderDependants(stks, keys, st) ==
    IF Len(st.stacks) = Cardinality(keys) THEN st.stacks
    ELSE LET next == ScanDependants(stks, keys, reverse(Ascending(keys)), st)
         IN  IF next = st THEN st.stacks
             ELSE OrderDependants(stks, keys, next)

NothingPlaced == [added |-> {}, stacks |-> <<>>]

\* Each query returns the Result: an error, or the stacks (by key) in order.
stacks_with_dependencies(stks, list) ==
    LET sel == stack_keys(stks, list) IN
    IF IsError(sel.error) THEN [error |-> sel.error, stacks |-> <<>>]
    ELSE [error  |-> NoError,
          stacks |-> OrderDependencies(stks, DependenciesClosure(stks, sel.keys),
                                       NothingPlaced)]

stacks_with_dependants(stks, list) ==
    LET sel == stack_keys(stks, list) IN
    IF IsError(sel.error) THEN [error |-> sel.error, stacks |-> <<>>]
    ELSE [error  |-> NoError,
          stacks |-> OrderDependants(stks, DependantsClosure(stks, sel.keys),
                                     NothingPlaced)]

\* Mutant: the selection is expanded as stacks_with_dependencies expands it.
stacks_plain_Expanded(stks, list) ==
    LET sel == stack_keys(stks, list) IN
    IF IsError(sel.error) THEN [error |-> sel.error, stacks |-> <<>>]
    ELSE [error  |-> NoError,
          stacks |-> Ascending(DependenciesClosure(stks, sel.keys))]

\* Config::stacks, with stacks_from_known_keys: the selection in key order.
stacks_plain(stks, list) ==
    LET sel == stack_keys(stks, list) IN
    IF IsError(sel.error) THEN [error |-> sel.error, stacks |-> <<>>]
    ELSE [error |-> NoError, stacks |-> Ascending(sel.keys)]

\* Mutant: the length is not tested, the stacks found are returned.
stack_NoCount(stks, list) == stacks_plain(stks, list)

\* Config::stack
stack(stks, list) ==
    LET found == stacks_plain(stks, list) IN
    IF IsError(found.error) THEN found
    ELSE IF Len(found.stacks) # 1
         THEN [error  |-> [kind |-> "StackCountError", count |-> Len(found.stacks)],
               stacks |-> <<>>]
         ELSE found

\* ------------------------------------------------------------- exec.rs
\* HashMap::extend: the entries of extra replace and add to those of base.
Extend(base, extra) ==
    [v \in DOMAIN base \cup DOMAIN extra |->
        IF v \in DOMAIN extra THEN extra[v] ELSE base[v]]

\* ExecOptions::new; global_args and environment come from Default::default().
ExecOptions_new(template, cmd, trailing) ==
    [binary      |-> template,
     global_args |-> <<>>,
     command     |-> cmd,
     args        |-> trailing,
     environment |-> EmptyEnv]

\* ExecOptions::with_stack
with_stack(options, stk) ==
    [options EXCEPT
        !.global_args = @ \o <<"-p", stk.name>>,
        !.environment = Extend(@, stk.environment)]

\* ExecOptions::program
program(options) == options.binary[1]

\* ExecOptions::args
exec_args(options) ==
    Tail(options.binary) \o options.global_args \o <<options.command>>
        \o options.args

\* ---------------------------------------------------------- program.rs
\* GlobalArguments.stacks, an Option<String>; a String is the sequence of its
\* characters.
None == [some |-> FALSE]
Some(text) == [some |-> TRUE, text |-> text]

RECURSIVE Split(_, _)
\* str::split(','): the fields between the commas, field being the one under
\* way; n commas give n + 1 fields.
Split(text, field) ==
    IF text = <<>> THEN <<field>>
    ELSE IF Head(text) = ","
         THEN <<field>> \o Split(Tail(text), <<>>)
         ELSE Split(Tail(text), Append(field, Head(text)))

\* The name a field spells.
NameOf(field) == CHOOSE n \in Names : field = <<ToString(n)>>

\* GlobalArguments::stacks
GlobalArguments_stacks(arg) ==
    IF ~arg.some THEN <<>>
    ELSE IF arg.text = <<>> \/ arg.text = <<"*">> THEN <<>>
    ELSE LET fields == Split(arg.text, <<>>) IN
         [i \in 1..Len(fields) |-> NameOf(fields[i])]

Verbs == {"build", "cp", "create", "down", "events", "exec", "images", "kill",
          "logs", "pause", "port", "ps", "pull", "push", "restart", "rm",
          "run", "start", "stop", "top", "unpause", "up"}

PlainVerbs      == {"build", "images", "ps", "pull", "push", "top"}
SingleVerbs     == {"cp", "events", "exec", "logs", "port", "run", "start", "stop"}
DependencyVerbs == {"create", "unpause", "up"}
DependantVerbs  == {"down", "kill", "pause", "rm", "restart"}

\* Mutant: the Create arm calls config.stacks like the Build arm before it.
CommandStacks_CreateByKey(stks, v, list) ==
    IF v \in PlainVerbs \cup {"create"} THEN stacks_plain(stks, list)
    ELSE IF v \in SingleVerbs THEN stack(stks, list)
    ELSE IF v \in DependencyVerbs THEN stacks_with_dependencies(stks, list)
    ELSE LET found == stacks_with_dependants(stks, list) IN
         [found EXCEPT !.stacks = reverse(@)]

\* The list each arm of Commands::run computes first.
CommandStacks(stks, v, list) ==
    IF v \in PlainVerbs THEN stacks_plain(stks, list)
    ELSE IF v \in SingleVerbs THEN stack(stks, list)
    ELSE IF v \in DependencyVerbs THEN stacks_with_dependencies(stks, list)
    ELSE LET found == stacks_with_dependants(stks, list) IN
         [found EXCEPT !.stacks = reverse(@)]

\* The verb and the trailing arguments of the first dispatch of each arm.
CommandVerb(v) == IF v = "restart" THEN "down" ELSE v
\* Mutant: `--wait` is pushed behind the caller's arguments.
CommandArgs_WaitLast(v, trailing) ==
    IF v = "up" THEN trailing \o <<"--wait">> ELSE trailing

CommandArgs(v, trailing) == IF v = "up" THEN <<"--wait">> \o trailing ELSE trailing

\* Mutant: `let stacks = reverse(stacks);` is left out, so the stacks taken
\* down are appended in teardown order.
RestartUpStacks_NoReverse(stks, list, down_stacks) ==
    LET up_stacks  == stacks_with_dependencies(stks, list)
        first_keys == Range(up_stacks.stacks)
    IN  [up_stacks EXCEPT
            !.stacks = @ \o SelectSeq(down_stacks,
                                      LAMBDA k : k \notin first_keys)]

\* Mutant: the second query of Restart is Config::stack, which counts the
\* stacks selected.
RestartUpStacks_SingleStack(stks, list, down_stacks) ==
    LET up_stacks  == stack(stks, list)
        first_keys == Range(up_stacks.stacks)
    IN  [up_stacks EXCEPT
            !.stacks = @ \o SelectSeq(reverse(down_stacks),
                                      LAMBDA k : k \notin first_keys)]

\* Restart: the list `up` is dispatched over once `down` has succeeded.
RestartUpStacks(stks, list, down_stacks) ==
    LET up_stacks  == stacks_with_dependencies(stks, list)
        first_keys == Range(up_stacks.stacks)
    IN  [up_stacks EXCEPT
            !.stacks = @ \o SelectSeq(reverse(down_stacks),
                                      LAMBDA k : k \notin first_keys)]

\* --------------------------------------------------------- commands.rs
ExitStatuses == {0, 1}

\* What exec hands to Command: program, arguments, environment.
Invocation(options, stk) ==
    LET o == with_stack(options, stk) IN
    [stack       |-> stk.key,
     program     |-> program(o),
     args        |-> exec_args(o),
     environment |-> o.environment,
     status      |-> "running"]

\* The dispatch loop over a list: ExecOptions::new, then one exec per stack.
run_against_stacks(cmd, list, trailing) ==
    /\ exec_options' = ExecOptions_new(config_command, cmd, trailing)
    /\ queue' = list
    /\ pos' = 1

\* ------------------------------------------------------------- main.rs
NoOptions == ExecOptions_new(<<>>, "", <<>>)

InitRun ==
    /\ stacks = [k \in {} |-> 0]
    /\ pc = "start"
    /\ verb = ""
    /\ requested = <<>>
    /\ cli_args = <<>>
    /\ exec_options = NoOptions
    /\ queue = <<>>
    /\ pos = 0
    /\ downed = <<>>
    /\ invoked = <<>>
    /\ error = NoError
    /\ query = [name |-> "", list |-> <<>>]
    /\ answer = [error |-> NoError, stacks |-> <<>>]

RECURSIVE SubsetsUpTo(_, _)
\* The subsets of S with at most n elements.
SubsetsUpTo(S, n) ==
    IF n = 0 THEN {{}}
    ELSE LET smaller == SubsetsUpTo(S, n - 1) IN
         smaller \cup {T \cup {x} : T \in smaller, x \in S}

\* The depends_on sets of the documents with at most n entries, each naming
\* a key or a name that is no key.
DependsOn(n) ==
    {[k \in Keys |-> {e[2] : e \in {f \in E : f[1] = k}}] :
        E \in SubsetsUpTo(Keys \X Names, n)}

DefaultCommand == <<"docker", "compose">>

\* A document that sets depends_on only: default names, no environment, the
\* default command.
InitDocument(edges) ==
    /\ \E d \in DependsOn(edges) :
          raw = [k \in Keys |->
                    [name |-> "", depends_on |-> d[k], environment |-> EmptyEnv]]
    /\ config_environment = EmptyEnv
    /\ config_command = DefaultCommand
    /\ InitRun

Init == InitDocument(MaxEdges)

\* Config::from_reader: the configuration, or the error that ends run().
Load ==
    /\ pc = "start"
    /\ LET loaded == deserialize_stacks(raw) IN
       IF IsError(loaded.error)
       THEN /\ error' = loaded.error
            /\ pc' = "done"
            /\ UNCHANGED stacks
       ELSE /\ stacks' = loaded.stacks
            /\ pc' = "loaded"
            /\ UNCHANGED error
    /\ UNCHANGED <<raw, config_environment, config_command, verb, requested,
                   cli_args, exec_options, queue, pos, downed, invoked>>
    /\ UNCHANGED <<query, answer>>

\* Commands::run up to its first dispatch.
Run(v, list, trailing) ==
    /\ pc = "loaded"
    /\ verb' = v
    /\ requested' = list
    /\ cli_args' = trailing
    /\ LET found == CommandStacks(stacks, v, list) IN
       IF IsError(found.error)
       THEN /\ error' = found.error
            /\ pc' = "done"
            /\ UNCHANGED <<exec_options, queue, pos, downed>>
       ELSE /\ run_against_stacks(CommandVerb(v), found.stacks,
                                  CommandArgs(v, trailing))
            /\ downed' = IF v = "restart" THEN found.stacks ELSE <<>>
            /\ pc' = "dispatch"
            /\ UNCHANGED error
    /\ UNCHANGED <<raw, config_environment, config_command, stacks, invoked>>
    /\ UNCHANGED <<query, answer>>

\* Mutant: the child is spawned and not waited for; the loop moves on while
\* the process runs.
Spawn_NoWait(spawned) ==
    /\ pc = "dispatch"
    /\ pos <= Len(queue)
    /\ LET inv == Invocation(exec_options, stacks[queue[pos]]) IN
       IF spawned
       THEN /\ invoked' = Append(invoked, inv)
            /\ pos' = pos + 1
            /\ pc' = "dispatch"
            /\ UNCHANGED error
       ELSE /\ invoked' = Append(invoked, [inv EXCEPT !.status = "spawn failed"])
            /\ error' = [kind |-> "SpawnError", message |-> "spawn"]
            /\ pc' = "done"
            /\ UNCHANGED pos
    /\ UNCHANGED <<raw, config_environment, config_command, stacks, verb,
                   requested, cli_args, exec_options, queue, downed>>
    /\ UNCHANGED <<query, answer>>

\* Mutant: with_stack changes the options of the dispatch in place, so the
\* flags of a stack stay for the stacks after it.
Spawn_Accumulates(spawned) ==
    /\ pc = "dispatch"
    /\ pos <= Len(queue)
    /\ LET inv == Invocation(exec_options, stacks[queue[pos]]) IN
       IF spawned
       THEN /\ invoked' = Append(invoked, inv)
            /\ pc' = "running"
            /\ UNCHANGED error
       ELSE /\ invoked' = Append(invoked, [inv EXCEPT !.status = "spawn failed"])
            /\ error' = [kind |-> "SpawnError", message |-> "spawn"]
            /\ pc' = "done"
    /\ exec_options' = with_stack(exec_options, stacks[queue[pos]])
    /\ UNCHANGED <<raw, config_environment, config_command, stacks, verb,
                   requested, cli_args, queue, pos, downed>>
    /\ UNCHANGED <<query, answer>>

\* exec up to Command::spawn for the stack at pos.
Spawn(spawned) ==
    /\ pc = "dispatch"
    /\ pos <= Len(queue)
    /\ LET inv == Invocation(exec_options, stacks[queue[pos]]) IN
       IF spawned
       THEN /\ invoked' = Append(invoked, inv)
            /\ pc' = "running"
            /\ UNCHANGED error
       ELSE /\ invoked' = Append(invoked, [inv EXCEPT !.status = "spawn failed"])
            /\ error' = [kind |-> "SpawnError", message |-> "spawn"]
            /\ pc' = "done"
    /\ UNCHANGED <<raw, config_environment, config_command, stacks, verb,
                   requested, cli_args, exec_options, queue, pos, downed>>
    /\ UNCHANGED <<query, answer>>

\* Mutant: the Result of exec is dropped (no `?`), so the loop moves on
\* after a failed process.
Wait_ResultDropped(waited, status) ==
    /\ pc = "running"
    /\ LET last == Len(invoked) IN
       invoked' = [invoked EXCEPT ![last].status =
                       IF ~waited THEN "wait failed"
                       ELSE IF status = 0 THEN "exit 0" ELSE "exit nonzero"]
    /\ pos' = pos + 1
    /\ pc' = "dispatch"
    /\ UNCHANGED <<raw, config_environment, config_command, stacks, verb,
                   requested, cli_args, exec_options, queue, downed, error>>
    /\ UNCHANGED <<query, answer>>

\* Mutant: `status.success()` is not tested, every exit status is Ok(()).
Wait_NonZeroOk(waited, status) ==
    /\ pc = "running"
    /\ LET last == Len(invoked) IN
       IF ~waited
       THEN /\ invoked' = [invoked EXCEPT ![last].status = "wait failed"]
            /\ error' = [kind |-> "SpawnError", message |-> "wait"]
            /\ pc' = "done"
            /\ UNCHANGED pos
       ELSE /\ invoked' = [invoked EXCEPT ![last].status =
                               IF status = 0 THEN "exit 0" ELSE "exit nonzero"]
            /\ pos' = pos + 1
            /\ pc' = "dispatch"
            /\ UNCHANGED error
    /\ UNCHANGED <<raw, config_environment, config_command, stacks, verb,
                   requested, cli_args, exec_options, queue, downed>>
    /\ UNCHANGED <<query, answer>>

\* child.wait() and the status check of exec; Ok(()) moves the loop on.
Wait(waited, status) ==
    /\ pc = "running"
    /\ LET last == Len(invoked) IN
       IF ~waited
       THEN /\ invoked' = [invoked EXCEPT ![last].status = "wait failed"]
            /\ error' = [kind |-> "SpawnError", message |-> "wait"]
            /\ pc' = "done"
            /\ UNCHANGED pos
       ELSE IF status = 0
       THEN /\ invoked' = [invoked EXCEPT ![last].status = "exit 0"]
            /\ pos' = pos + 1
            /\ pc' = "dispatch"
            /\ UNCHANGED error
       ELSE /\ invoked' = [invoked EXCEPT ![last].status = "exit nonzero"]
            /\ error' = [kind    |-> "NonZeroExit",
                         program |-> invoked[last].program,
                         args    |-> invoked[last].args,
                         status  |-> status]
            /\ pc' = "done"
            /\ UNCHANGED pos
    /\ UNCHANGED <<raw, config_environment, config_command, stacks, verb,
                   requested, cli_args, exec_options, queue, downed>>
    /\ UNCHANGED <<query, answer>>

\* Mutant: the Result of the `down` dispatch is not propagated (no `?`), so
\* the `up` dispatch follows a failed `down` as well.
RestartUp_IgnoresDown ==
    /\ verb = "restart"
    /\ exec_options.command = "down"
    /\ \/ pc = "dispatch" /\ pos > Len(queue)
       \/ /\ pc = "done"
          /\ invoked # <<>>
          /\ invoked[Len(invoked)].status \in
                 {"spawn failed", "wait failed", "exit nonzero"}
    /\ LET found == RestartUpStacks(stacks, requested, downed) IN
       IF IsError(found.error)
       THEN /\ error' = found.error
            /\ pc' = "done"
            /\ UNCHANGED <<exec_options, queue, pos>>
       ELSE /\ run_against_stacks("up", found.stacks, <<"--wait">>)
            /\ pc' = "dispatch"
            /\ error' = NoError
    /\ UNCHANGED <<raw, config_environment, config_command, stacks, verb,
                   requested, cli_args, downed, invoked>>
    /\ UNCHANGED <<query, answer>>

\* Restart after `down` returned Ok(()): the second query and the `up` dispatch.
RestartUp ==
    /\ pc = "dispatch"
    /\ pos > Len(queue)
    /\ verb = "restart"
    /\ exec_options.command = "down"
    /\ LET found == RestartUpStacks(stacks, requested, downed) IN
       IF IsError(found.error)
       THEN /\ error' = found.error
            /\ pc' = "done"
            /\ UNCHANGED <<exec_options, queue, pos>>
       ELSE /\ run_against_stacks("up", found.stacks, <<"--wait">>)
            /\ pc' = "dispatch"
            /\ UNCHANGED error
    /\ UNCHANGED <<raw, config_environment, config_command, stacks, verb,
                   requested, cli_args, downed, invoked>>
    /\ UNCHANGED <<query, answer>>

\* The dispatch loop ran out of stacks: Ok(()).
Finish ==
    /\ pc = "dispatch"
    /\ pos > Len(queue)
    /\ ~(verb = "restart" /\ exec_options.command = "down")
    /\ pc' = "done"
    /\ UNCHANGED <<raw, config_environment, config_command, stacks, verb,
                   requested, cli_args, exec_options, queue, pos, downed,
                   invoked, error>>
    /\ UNCHANGED <<query, answer>>

\* One ordering query applied to the loaded configuration. "restart" is the
\* pair of lists of the Restart arm: `down` over the reversed dependants
\* order, `up` over RestartUpStacks.
Queries == {"stacks", "stack", "stacks_with_dependencies",
            "stacks_with_dependants", "restart"}

QueryAnswer(stks, name, list) ==
    IF name = "stacks" THEN stacks_plain(stks, list)
    ELSE IF name = "stack" THEN stack(stks, list)
    ELSE IF name = "stacks_with_dependencies"
         THEN stacks_with_dependencies(stks, list)
    ELSE IF name = "stacks_with_dependants"
         THEN stacks_with_dependants(stks, list)
    ELSE LET down == CommandStacks(stks, "restart", list) IN
         IF IsError(down.error) THEN down
         ELSE [down |-> down.stacks] @@ RestartUpStacks(stks, list, down.stacks)

Query(name, list) ==
    /\ pc = "loaded"
    /\ query' = [name |-> name, list |-> list]
    /\ answer' = QueryAnswer(stacks, name, list)
    /\ pc' = "answered"
    /\ UNCHANGED <<raw, config_environment, config_command, stacks, verb,
                   requested, cli_args, exec_options, queue, pos, downed,
                   invoked, error>>

RECURSIVE SeqsUpTo(_, _)
\* The sequences over S of length at most n.
SeqsUpTo(S, n) ==
    IF n = 0 THEN {<<>>}
    ELSE LET shorter == SeqsUpTo(S, n - 1) IN
         shorter \cup {Append(q, x) : q \in shorter, x \in S}

\* Requests of configured stacks, in any order, with repetitions.
KnownRequests == SeqsUpTo(Keys, MaxRequested)

\* Trailing arguments a caller may give.
ArgLists == {<<>>, <<"-a", "-b">>}

\* Requests of at most one name: all stacks, one stack, one unknown name.
ShortRequests == SeqsUpTo(Names, 1)

Next ==
    \/ Load
    \/ \E v \in Verbs, list \in ShortRequests : Run(v, list, <<>>)
    \/ \E list \in ShortRequests, trailing \in ArgLists \ {<<>>} :
           Run("up", list, trailing)
    \/ \E spawned \in BOOLEAN : Spawn(spawned)
    \/ \E waited \in BOOLEAN, status \in ExitStatuses : Wait(waited, status)
    \/ RestartUp
    \/ Finish

Spec == Init /\ [][Next]_vars

\* The ordering queries alone, over every document of the bounds.
NextOrder ==
    \/ Load
    \/ /\ pc = "loaded"
       /\ \E name \in Queries, list \in KnownRequests : Query(name, list)

SpecOrder == Init /\ [][NextOrder]_vars

\* Documents that set environment: no depends_on, and for the configuration
\* and for every stack any subset of EnvVars, the configuration's variables
\* valued "base" and the stacks' valued "stack".
EnvVars == {"A", "B"}
Environments(value) == UNION {[S -> {value}] : S \in SUBSET EnvVars}

InitExec ==
    /\ \E e \in [Keys -> Environments("stack")] :
          raw = [k \in Keys |->
                    [name |-> "", depends_on |-> {}, environment |-> e[k]]]
    /\ config_environment \in Environments("base")
    /\ config_command = DefaultCommand
    /\ InitRun

\* Runs of one verb of each arm shape over those documents.
NextExec ==
    \/ Load
    \/ \E v \in {"ps", "exec", "up", "down"}, list \in ShortRequests,
          trailing \in ArgLists :
           Run(v, list, trailing)
    \/ \E spawned \in BOOLEAN : Spawn(spawned)
    \/ \E waited \in BOOLEAN, status \in ExitStatuses : Wait(waited, status)
    \/ Finish

SpecExec == InitExec /\ [][NextExec]_vars

\* Documents of any number of stacks up to NumStacks, the empty document
\* included, with no or one depends_on entry.
InitRequest ==
    /\ \E n \in 0..NumStacks :
          \E E \in {{}} \cup {{e} : e \in (1..n) \X Names} :
             raw = [k \in 1..n |->
                       [name        |-> "",
                        depends_on  |-> {e[2] : e \in {f \in E : f[1] = k}},
                        environment |-> EmptyEnv]]
    /\ config_environment = EmptyEnv
    /\ config_command = DefaultCommand
    /\ InitRun

RECURSIVE Join(_)
\* The text of a list of names, comma separated.
Join(list) ==
    IF Len(list) = 1 THEN <<ToString(list[1])>>
    ELSE <<ToString(Head(list)), ",">> \o Join(Tail(list))

\* What the caller may give for the stacks: nothing, the empty string, `*`,
\* or a comma separated list of names, known or not, in any order, with
\* repetitions.
Positionals ==
    {None, Some(<<>>), Some(<<"*">>)}
        \cup {Some(Join(list)) : list \in SeqsUpTo(Names, MaxRequested) \ {<<>>}}

\* One query of Config applied to what GlobalArguments::stacks returns.
Ask(name, arg) ==
    /\ pc = "loaded"
    /\ LET list == GlobalArguments_stacks(arg) IN
       /\ query' = [name |-> name, list |-> list, arg |-> arg]
       /\ answer' = QueryAnswer(stacks, name, list)
    /\ pc' = "answered"
    /\ UNCHANGED <<raw, config_environment, config_command, stacks, verb,
                   requested, cli_args, exec_options, queue, pos, downed,
                   invoked, error>>

\* The four queries, and the runs of the single-stack commands.
NextRequest ==
    \/ Load
    \/ /\ pc = "loaded"
       /\ \E name \in Queries \ {"restart"}, arg \in Positionals :
              Ask(name, arg)
    \/ /\ pc = "loaded"
       /\ \E v \in SingleVerbs, arg \in Positionals :
              Run(v, GlobalArguments_stacks(arg), <<>>)
    \/ \E spawned \in BOOLEAN : Spawn(spawned)
    \/ \E waited \in BOOLEAN, status \in ExitStatuses : Wait(waited, status)
    \/ Finish

SpecRequest == InitRequest /\ [][NextRequest]_vars

\* The two closure queries with the loops of the placement taken one key
\* at a time. answer holds the locals of the query: keys, added, stacks;
\* todo, the keys the scan under way has still to visit; scans, the number
\* of scans begun; before, the length of stacks when the scan began.
PlaceQueries == {"stacks_with_dependencies", "stacks_with_dependants"}

\* Requests of known names, each set of at most MaxRequested names once.
SetRequests == {Ascending(S) : S \in SubsetsUpTo(Keys, MaxRequested)}

\* The query up to its `while`: the selection and its closure.
PlaceStart(name, list) ==
    /\ pc = "loaded"
    /\ query' = [name |-> name, list |-> list]
    /\ LET sel == stack_keys(stacks, list) IN
       IF IsError(sel.error)
       THEN /\ answer' = [error |-> sel.error, stacks |-> <<>>, scans |-> 0]
            /\ pc' = "answered"
       ELSE /\ answer' = [keys   |-> IF name = "stacks_with_dependencies"
                                     THEN DependenciesClosure(stacks, sel.keys)
                                     ELSE DependantsClosure(stacks, sel.keys),
                          added  |-> {},
                          stacks |-> <<>>,
                          todo   |-> <<>>,
                          scans  |-> 0,
                          before |-> 0]
            /\ pc' = "placing"
    /\ UNCHANGED <<raw, config_environment, config_command, stacks, verb,
                   requested, cli_args, exec_options, queue, pos, downed,
                   invoked, error>>

\* `while stacks.len() != keys.len()` is true: `for key in keys.iter().rev()`
\* begins. A loop that places nothing goes on for ever; the scans are
\* counted up to one beyond the number of keys.
PlaceScan ==
    /\ pc = "placing"
    /\ answer.todo = <<>>
    /\ Len(answer.stacks) # Cardinality(answer.keys)
    /\ answer.scans <= Cardinality(answer.keys)
    /\ answer' = [answer EXCEPT !.todo   = reverse(Ascending(answer.keys)),
                                !.scans  = @ + 1,
                                !.before = Len(answer.stacks)]
    /\ UNCHANGED <<raw, config_environment, config_command, stacks, verb,
                   requested, cli_args, exec_options, queue, pos, downed,
                   invoked, error, query, pc>>

\* The test of the `if` in the scan: stacks_with_dependencies looks at the
\* dependencies of the stack, stacks_with_dependants at its dependants.
Placeable(name, stk, keys, added) ==
    \A dep \in (IF name = "stacks_with_dependencies"
                THEN stk.dependencies ELSE stk.dependants) :
        dep \in added \/ dep \notin keys

\* Mutant: the closure of `all` tests `added.contains(key)`, the key being
\* scanned, in place of the dependency.
PlaceKey_TestsKey ==
    /\ pc = "placing"
    /\ answer.todo # <<>>
    /\ LET key == Head(answer.todo) IN
       IF key \notin answer.added
          /\ \A dep \in (IF query.name = "stacks_with_dependencies"
                          THEN stacks[key].dependencies
                          ELSE stacks[key].dependants) :
                 key \in answer.added \/ dep \notin answer.keys
       THEN answer' = [answer EXCEPT
                          !.todo   = Tail(@),
                          !.added  = @ \cup {key},
                          !.stacks = IF query.name = "stacks_with_dependencies"
                                     THEN Append(@, key)
                                     ELSE <<key>> \o @]
       ELSE answer' = [answer EXCEPT !.todo = Tail(@)]
    /\ UNCHANGED <<raw, config_environment, config_command, stacks, verb,
                   requested, cli_args, exec_options, queue, pos, downed,
                   invoked, error, query, pc>>

\* The body of the `for` for one key: `continue` when it is added already,
\* else `stacks.push` (stacks_with_dependencies) or `stacks.insert(0, ..)`
\* (stacks_with_dependants) when the test passes.
PlaceKey ==
    /\ pc = "placing"
    /\ answer.todo # <<>>
    /\ LET key == Head(answer.todo) IN
       IF key \notin answer.added
          /\ Placeable(query.name, stacks[key], answer.keys, answer.added)
       THEN answer' = [answer EXCEPT
                          !.todo   = Tail(@),
                          !.added  = @ \cup {key},
                          !.stacks = IF query.name = "stacks_with_dependencies"
                                     THEN Append(@, key)
                                     ELSE <<key>> \o @]
       ELSE answer' = [answer EXCEPT !.todo = Tail(@)]
    /\ UNCHANGED <<raw, config_environment, config_command, stacks, verb,
                   requested, cli_args, exec_options, queue, pos, downed,
                   invoked, error, query, pc>>

\* The `while` condition is false: Ok(stacks).
PlaceReturn ==
    /\ pc = "placing"
    /\ answer.todo = <<>>
    /\ Len(answer.stacks) = Cardinality(answer.keys)
    /\ answer' = [error  |-> NoError,
                  stacks |-> answer.stacks,
                  scans  |-> answer.scans]
    /\ pc' = "answered"
    /\ UNCHANGED <<raw, config_environment, config_command, stacks, verb,
                   requested, cli_args, exec_options, queue, pos, downed,
                   invoked, error, query>>

NextPlace ==
    \/ Load
    \/ /\ pc = "loaded"
       /\ \E name \in PlaceQueries, list \in SetRequests :
              PlaceStart(name, list)
    \/ PlaceScan
    \/ PlaceKey
    \/ PlaceReturn

\* The query is one sequential call: a step that can be taken is taken.
SpecPlace ==
    /\ Init
    /\ [][NextPlace]_vars
    /\ WF_vars(PlaceScan)
    /\ WF_vars(PlaceKey)
    /\ WF_vars(PlaceReturn)

\* Names an author may give a stack ("" is none given), and command
\* templates of one and of two tokens.
AuthoredNames == {"", "web", "db"}
Templates == {DefaultCommand, <<"podman-compose">>}

\* Documents that set name and command: no depends_on, no environment; two
\* stacks may carry the same name.
InitInvoke ==
    /\ \E n \in [Keys -> AuthoredNames] :
          raw = [k \in Keys |->
                    [name |-> n[k], depends_on |-> {}, environment |-> EmptyEnv]]
    /\ config_environment = EmptyEnv
    /\ config_command \in Templates
    /\ InitRun

\* Runs of one verb of each arm, restart included, with and without
\* trailing arguments.
NextInvoke ==
    \/ Load
    \/ /\ pc = "loaded"
       /\ \E v \in {"ps", "exec", "up", "down", "restart"},
             list \in ShortRequests, trailing \in ArgLists :
              Run(v, list, trailing)
    \/ \E spawned \in BOOLEAN : Spawn(spawned)
    \/ \E waited \in BOOLEAN, status \in ExitStatuses : Wait(waited, status)
    \/ RestartUp
    \/ Finish

SpecInvoke == InitInvoke /\ [][NextInvoke]_vars

\* ======================================================================
\* Properties. The notions they use are defined from the document (raw),
\* not from the operators above.
\* ======================================================================
\* The stacks of the document.
Configured == DOMAIN raw

DeclaredDependencies(k) == IF k \in Configured THEN raw[k].depends_on ELSE {}
DeclaredDependants(k) == {a \in Configured : k \in raw[a].depends_on}

\* The keys a request selects: all of them when it names none.
Selected(list) == IF list = <<>> THEN Configured ELSE Range(list)

RECURSIVE LeastClosed(_, _)
\* The least set that contains S and, with each member k, step[k].
LeastClosed(S, step) ==
    LET T == S \cup UNION {step[k] : k \in S} IN
    IF T = S THEN S ELSE LeastClosed(T, step)

ForwardClosure(S) ==
    LeastClosed(S, [n \in Names |->
                      IF n \in Keys THEN DeclaredDependencies(n) ELSE {}])
BackwardClosure(S) ==
    LeastClosed(S, [k \in Keys |-> DeclaredDependants(k)])

\* seq holds every element of K exactly once.
Enumerates(seq, K) == Range(seq) = K /\ Len(seq) = Cardinality(K)

\* Every declared dependency of a stack of seq that is in seq too stands
\* strictly before it.
InDependencyOrder(seq) ==
    \A i \in 1..Len(seq) :
        \A d \in DeclaredDependencies(seq[i]) \cap Range(seq) :
            \E j \in 1..(i - 1) : seq[j] = d

Answered(name) == pc = "answered" /\ query.name = name

\* C1: stacks_with_dependencies returns every key of the forward closure of
\* the selection exactly once, each after all of its dependencies in the
\* closure.
C1_DependenciesFirst ==
    Answered("stacks_with_dependencies") =>
        /\ ~IsError(answer.error)
        /\ Enumerates(answer.stacks, ForwardClosure(Selected(query.list)))
        /\ InDependencyOrder(answer.stacks)

\* A closure larger than the request, placed against the descending scan.
C1_Witness ==
    /\ Answered("stacks_with_dependencies")
    /\ Len(query.list) = 1
    /\ Len(answer.stacks) = NumStacks
    /\ \E i \in 1..NumStacks - 1 : answer.stacks[i] < answer.stacks[i + 1]

\* C2: the reverse of what stacks_with_dependants returns holds every key of
\* the backward closure exactly once, every dependant of a stack before it.
C2_DependantsTornDownFirst ==
    Answered("stacks_with_dependants") =>
        LET teardown == reverse(answer.stacks) IN
        /\ ~IsError(answer.error)
        /\ Enumerates(teardown, BackwardClosure(Selected(query.list)))
        /\ \A i \in 1..Len(teardown) :
               \A d \in DeclaredDependants(teardown[i]) :
                   \E j \in 1..(i - 1) : teardown[j] = d

\* One requested stack with a dependant that has a dependant of its own.
C2_Witness ==
    /\ Answered("stacks_with_dependants")
    /\ Len(query.list) = 1
    /\ Len(answer.stacks) = NumStacks
    /\ \E a \in Keys : \E b \in DeclaredDependants(a) :
           DeclaredDependants(b) # {}

\* Load has run.
Loaded == pc # "start"
LoadFailed(kind) == pc = "done" /\ stacks = [k \in {} |-> 0] /\ error.kind = kind

\* Every depends_on entry names a configured stack.
ReferenceValid == \A k \in Keys : DeclaredDependencies(k) \subseteq Keys

\* The names reached from n along one or more declared edges.
ReachedFrom(n) ==
    LeastClosed(IF n \in Keys THEN DeclaredDependencies(n) ELSE {},
                [x \in Names |-> IF x \in Keys THEN DeclaredDependencies(x) ELSE {}])

Acyclic == \A k \in Keys : k \notin ReachedFrom(k)

\* a -> b is a declared edge on a directed cycle.
EdgeOnCycle(a, b) ==
    /\ a \in Keys
    /\ b \in DeclaredDependencies(a)
    /\ (a = b \/ a \in ReachedFrom(b))

\* C4: a document whose dependencies all name configured stacks and form no
\* cycle loads, and dependants is then the inverse of dependencies.
C4_LoadsWithInverseDependants ==
    (Loaded /\ ReferenceValid /\ Acyclic) =>
        /\ ~IsError(error)
        /\ DOMAIN stacks = Keys
        /\ \A a \in Keys : stacks[a].dependencies = DeclaredDependencies(a)
        /\ \A a, b \in Keys :
               a \in stacks[b].dependants <=> b \in stacks[a].dependencies

\* A loaded document in which one stack is reached along two paths.
C4_Witness ==
    /\ pc = "loaded"
    /\ \E a, b, c \in Keys :
           /\ {b, c} \subseteq DeclaredDependencies(a)
           /\ c \in DeclaredDependencies(b)
           /\ stacks[c].dependants = {a, b}

\* C5 as stated: a document with a directed cycle fails to load with
\* DependencyCycle, naming a declared edge on a cycle.
C5_CycleAlwaysReported ==
    (Loaded /\ ~Acyclic) =>
        /\ LoadFailed("DependencyCycle")
        /\ EdgeOnCycle(error.key, error.dep)

\* C5 amended: a document with a directed cycle fails to load, with
\* DependencyCycle when every dependency names a configured stack (else
\* DanglingDependency may be met first); a DependencyCycle error always names
\* a declared edge on a directed cycle.
C5_CycleRejected ==
    /\ (Loaded /\ ~Acyclic) =>
           /\ LoadFailed("DependencyCycle") \/ LoadFailed("DanglingDependency")
           /\ ReferenceValid => LoadFailed("DependencyCycle")
    /\ (Loaded /\ error.kind = "DependencyCycle") =>
           EdgeOnCycle(error.key, error.dep)

\* A cycle of more than one hop entered from a stack that is not on it.
C5_Witness ==
    /\ LoadFailed("DependencyCycle")
    /\ error.key # error.dep
    /\ \E k \in Keys : k \notin ReachedFrom(k) /\ error.key \in ReachedFrom(k)

\* C6 as stated: a document with a dependency on a name that is no
\* configured stack fails to load with DanglingDependency naming such a name.
C6_DanglingAlwaysReported ==
    (Loaded /\ ~ReferenceValid) =>
        /\ LoadFailed("DanglingDependency")
        /\ error.dep \notin Keys
        /\ \E k \in Keys : error.dep \in DeclaredDependencies(k)

\* C6 amended: such a document fails to load, with DanglingDependency when
\* the declared dependencies form no cycle (else DependencyCycle may be met
\* first); a DanglingDependency error always names a declared dependency
\* that is no configured stack.
C6_DanglingRejected ==
    /\ (Loaded /\ ~ReferenceValid) =>
           /\ LoadFailed("DependencyCycle") \/ LoadFailed("DanglingDependency")
           /\ Acyclic => LoadFailed("DanglingDependency")
    /\ (Loaded /\ error.kind = "DanglingDependency") =>
           /\ error.dep \notin Keys
           /\ \E k \in Keys : error.dep \in DeclaredDependencies(k)

\* The unknown name is met below the stack that load starts from.
C6_Witness ==
    /\ LoadFailed("DanglingDependency")
    /\ error.dep \notin DeclaredDependencies(1)
    /\ \E k \in DeclaredDependencies(1) : error.dep \in DeclaredDependencies(k)

NoDuplicates(seq) == Cardinality(Range(seq)) = Len(seq)

\* C7: the list restart dispatches `up` over holds every stack `down` was
\* dispatched over, none twice, begins with the forward closure of the
\* request, and has every stack after its dependencies in the list.
C7_RestartUpCoversDown ==
    Answered("restart") =>
        LET K == ForwardClosure(Selected(query.list)) IN
        /\ ~IsError(answer.error)
        /\ Enumerates(answer.down, BackwardClosure(Selected(query.list)))
        /\ Range(answer.down) \subseteq Range(answer.stacks)
        /\ NoDuplicates(answer.stacks)
        /\ Enumerates(SubSeq(answer.stacks, 1, Cardinality(K)), K)
        /\ InDependencyOrder(answer.stacks)

\* Two stacks are taken down that the forward closure does not hold.
C7_Witness ==
    /\ Answered("restart")
    /\ Len(query.list) = 1
    /\ Len(answer.down) = NumStacks
    /\ Cardinality(ForwardClosure(Selected(query.list))) = 1

\* C8 as stated: a forward and a backward query that expand to the same key
\* set return the same sequence.
C8_SameSequence ==
    Answered("stacks_with_dependants") =>
        LET forward == stacks_with_dependencies(stacks, query.list) IN
        Range(forward.stacks) = Range(answer.stacks) =>
            forward.stacks = answer.stacks

\* C8 amended: a forward and a backward query that expand to the same key
\* set both return every key of it exactly once in dependency order; the
\* two sequences need not be equal.
C8_SameSetBothOrdered ==
    Answered("stacks_with_dependants") =>
        LET forward == stacks_with_dependencies(stacks, query.list) IN
        Range(forward.stacks) = Range(answer.stacks) =>
            /\ Enumerates(forward.stacks, Range(answer.stacks))
            /\ NoDuplicates(answer.stacks)
            /\ InDependencyOrder(forward.stacks)
            /\ InDependencyOrder(answer.stacks)

\* Both closures give all stacks, one depends on another, and the two
\* sequences differ.
C8_Witness ==
    /\ Answered("stacks_with_dependants")
    /\ Len(answer.stacks) = NumStacks
    /\ \E k \in Keys : DeclaredDependencies(k) # {}
    /\ LET forward == stacks_with_dependencies(stacks, query.list) IN
       /\ Range(forward.stacks) = Range(answer.stacks)
       /\ forward.stacks # answer.stacks

\* The invocations of the dispatch under way (restart: of `up` once `down`
\* is through).
DispatchLog ==
    IF verb = "restart" /\ exec_options.command = "up"
    THEN SubSeq(invoked, Len(downed) + 1, Len(invoked))
    ELSE invoked

Failed(inv) == inv.status \in {"spawn failed", "wait failed", "exit nonzero"}

\* The position of the verb in an argument list: after the rest of the
\* command template and the pair `-p <name>`.
VerbAt == Len(config_command) + 2

\* C3: the stacks invoked are those at the first positions of the list, in
\* list order; a failed invocation is the last one ever made, the run ends
\* there with an error, and every invocation carries the dispatched verb.
C3_FailFast ==
    LET log == DispatchLog IN
    /\ Len(log) <= Len(queue)
    /\ \A i \in 1..Len(log) :
           /\ log[i].stack = queue[i]
           /\ log[i].args[VerbAt] = exec_options.command
    /\ \A i \in 1..(Len(invoked) - 1) : invoked[i].status = "exit 0"
    /\ (invoked # <<>> /\ Failed(invoked[Len(invoked)])) =>
           /\ pc = "done"
           /\ error.kind \in {"SpawnError", "NonZeroExit"}
           /\ pos = Len(log)

\* Three stacks, the process of the second exits non-zero.
C3_Witness ==
    /\ pc = "done"
    /\ Len(queue) = 3
    /\ Len(invoked) = 2
    /\ invoked[1].status = "exit 0"
    /\ invoked[2].status = "exit nonzero"
    /\ error.kind = "NonZeroExit"

\* s is dispatched after every dispatched stack it declares as a dependency.
DispatchedInDependencyOrder ==
    \A i, j \in 1..Len(invoked) :
        invoked[j].stack \in DeclaredDependencies(invoked[i].stack) => j < i

\* C9 as stated: build, create, pull, push, ps, images and top dispatch in
\* dependency order.
C9_AllInDependencyOrder ==
    verb \in {"build", "create", "pull", "push", "ps", "images", "top"} =>
        DispatchedInDependencyOrder

\* C9 amended: create dispatches in dependency order; build, pull, push,
\* ps, images and top dispatch the selected stacks in ascending key order,
\* whatever they depend on.
C9_CreateOrderedOthersByKey ==
    LET dispatched == {invoked[i].stack : i \in 1..Len(invoked)} IN
    /\ verb = "create" =>
           /\ DispatchedInDependencyOrder
           /\ dispatched \subseteq ForwardClosure(Selected(requested))
    /\ verb \in {"build", "pull", "push", "ps", "images", "top"} =>
           /\ \A i, j \in 1..Len(invoked) :
                  i < j => invoked[i].stack < invoked[j].stack
           /\ dispatched \subseteq Selected(requested)

\* create has dispatched a stack after the dependency that sorts behind it.
C9_Witness ==
    /\ verb = "create"
    /\ Len(invoked) = NumStacks
    /\ \E i \in 1..(NumStacks - 1) :
           /\ invoked[i].stack > invoked[i + 1].stack
           /\ invoked[i].stack \in DeclaredDependencies(invoked[i + 1].stack)

\* C10: the environment of every invocation is the configuration's
\* environment overlaid with the stack's: base variables the stack does not
\* redefine keep their base value, stack variables have the stack's value.
C10_BaseEnvironmentOverlaid ==
    \A i \in 1..Len(invoked) :
        LET env  == invoked[i].environment
            own  == raw[invoked[i].stack].environment
            base == config_environment
        IN  /\ \A v \in DOMAIN base \ DOMAIN own :
                   v \in DOMAIN env /\ env[v] = base[v]
            /\ \A v \in DOMAIN own :
                   v \in DOMAIN env /\ env[v] = own[v]

\* The invocation a run that failed in its dispatch ended on.
LastInvocation == invoked[Len(invoked)]
DispatchFailed == pc = "done" /\ invoked # <<>> /\ Failed(LastInvocation)

\* C11: the error of a failed dispatch carries the program and the full
\* argument list of the failed invocation, with the exit status after a
\* non-zero exit and with the error message after a failed spawn.
C11_ErrorIdentifiesInvocation ==
    DispatchFailed =>
        /\ "program" \in DOMAIN error
        /\ error.program = LastInvocation.program
        /\ "args" \in DOMAIN error
        /\ error.args = LastInvocation.args
        /\ IF LastInvocation.status = "exit nonzero"
           THEN "status" \in DOMAIN error
           ELSE "message" \in DOMAIN error

\* A run that reached its dispatch and has returned.
DispatchReturned == pc = "done" /\ exec_options # NoOptions

\* C12: a dispatch returns Ok(()) exactly when every stack of its list was
\* invoked, in list order, and every one of the processes exited with
\* status zero.
C12_SuccessIffAllExitedZero ==
    DispatchReturned =>
        LET log == DispatchLog IN
        /\ error = NoError <=>
               /\ Len(log) = Len(queue)
               /\ \A i \in 1..Len(log) :
                      log[i].stack = queue[i] /\ log[i].status = "exit 0"
        /\ error = NoError =>
               \A i \in 1..Len(invoked) : invoked[i].status = "exit 0"

\* A teardown over all stacks, one of which has a dependant, returned Ok(()).
C12_Witness ==
    /\ DispatchReturned
    /\ error = NoError
    /\ verb = "down"
    /\ Len(invoked) = NumStacks
    /\ \E k \in Keys : DeclaredDependants(k) # {}

InFlight == {i \in 1..Len(invoked) : invoked[i].status = "running"}

\* C13: at most one process is in flight, it is the one spawned last, and
\* every process spawned before it has exited with status zero: the process
\* of position n+1 is spawned only once the process of position n has exited.
C13_OneProcessAtATime ==
    /\ Cardinality(InFlight) <= 1
    /\ InFlight \subseteq {Len(invoked)}
    /\ InFlight # {} <=> pc = "running"
    /\ \A i \in 1..Len(invoked) :
           i < Len(invoked) => invoked[i].status = "exit 0"
    /\ pc = "running" => pos = Len(DispatchLog)

\* The second process of a list runs, the first has exited.
C13_Witness ==
    /\ pc = "running"
    /\ Len(queue) = NumStacks
    /\ Len(invoked) = 2
    /\ invoked[1].status = "exit 0"
    /\ invoked[2].status = "running"
    /\ invoked[1].stack = queue[1]
    /\ invoked[2].stack = queue[2]

\* T contains S and, with each of its members, step of that member.
ClosedOver(T, S, step(_)) == S \subseteq T /\ \A k \in T : step(k) \subseteq T

\* R is the smallest set of keys that is closed over S.
SmallestClosed(R, S, step(_)) ==
    /\ ClosedOver(R, S, step)
    /\ \A T \in SUBSET Keys : ClosedOver(T, S, step) => R \subseteq T

\* C14: the set of stacks stacks_with_dependencies returns is the smallest
\* set that contains the selected keys and every dependency of each of its
\* members.
C14_ExactlyForwardClosure ==
    Answered("stacks_with_dependencies") =>
        /\ SmallestClosed(Range(answer.stacks), Selected(query.list),
                          DeclaredDependencies)
        /\ Range(answer.stacks) = ForwardClosure(Selected(query.list))

\* One stack is requested; the closure holds a stack that is a dependency
\* of a dependency only.
C14_Witness ==
    /\ Answered("stacks_with_dependencies")
    /\ Len(query.list) = 1
    /\ \E c \in Range(answer.stacks) :
           c # query.list[1] /\ c \notin DeclaredDependencies(query.list[1])

\* C15: the set of stacks stacks_with_dependants returns is the smallest set
\* that contains the selected keys and every dependant of each of its
\* members.
C15_ExactlyBackwardClosure ==
    Answered("stacks_with_dependants") =>
        /\ SmallestClosed(Range(answer.stacks), Selected(query.list),
                          DeclaredDependants)
        /\ Range(answer.stacks) = BackwardClosure(Selected(query.list))

\* Two stacks are requested; the closure holds a dependant of one of them
\* and leaves out the stack the other depends on.
C15_Witness ==
    /\ Answered("stacks_with_dependants")
    /\ Len(query.list) = 2
    /\ Cardinality(Range(answer.stacks)) = 2
    /\ Range(answer.stacks) # Range(query.list)
    /\ \E a \in Range(query.list) :
           /\ DeclaredDependencies(a) # {}
           /\ DeclaredDependencies(a) \cap Range(answer.stacks) = {}

\* The positions of a request that hold a name of no configured stack.
UnknownAt(list) == {i \in 1..Len(list) : list[i] \notin Configured}

ListQueries == {"stacks", "stacks_with_dependencies", "stacks_with_dependants"}

\* C16: each of the three list queries, given a request that holds a name
\* of no configured stack, returns UnknownStack naming such a name of the
\* request (the first one in request order), whatever known names stand
\* before or after it; a request of known names only never gives
\* UnknownStack.
C16_UnknownStackNamed ==
    (pc = "answered" /\ query.name \in ListQueries) =>
        LET unknown == UnknownAt(query.list) IN
        IF unknown = {}
        THEN answer.error.kind # "UnknownStack"
        ELSE /\ answer.error.kind = "UnknownStack"
             /\ answer.error.name \in {query.list[i] : i \in unknown}
             /\ \A i \in unknown :
                    (\A j \in unknown : i <= j) =>
                        answer.error.name = query.list[i]
             /\ answer.stacks = <<>>

\* The backward query is given a stack that has a dependant, then a name
\* that is no stack.
C16_Witness ==
    /\ Answered("stacks_with_dependants")
    /\ Len(query.list) = 2
    /\ query.list[1] \in Configured
    /\ DeclaredDependants(query.list[1]) # {}
    /\ query.list[2] \notin Configured
    /\ answer.error = [kind |-> "UnknownStack", name |-> query.list[2]]

\* What Config::stack is to return for a request of known names: the one
\* stack selected, or StackCountError with the number of stacks selected.
SingleStackResult(list, err, found) ==
    LET count == Cardinality(Selected(list)) IN
    IF count = 1
    THEN ~IsError(err) /\ Range(found) = Selected(list) /\ Len(found) = 1
    ELSE err = [kind |-> "StackCountError", count |-> count]

\* C17: the single-stack query succeeds exactly when the request of known
\* names selects one stack, and fails with StackCountError carrying the
\* number of stacks selected otherwise; a single-stack command that ends
\* with StackCountError has invoked no process.
C17_SingleStackCount ==
    /\ (Answered("stack") /\ UnknownAt(query.list) = {}) =>
           SingleStackResult(query.list, answer.error, answer.stacks)
    /\ (verb \in SingleVerbs /\ UnknownAt(requested) = {}) =>
           IF Cardinality(Selected(requested)) = 1
           THEN /\ error.kind # "StackCountError"
                /\ SingleStackResult(requested, NoError, queue)
           ELSE /\ SingleStackResult(requested, error, queue)
                /\ pc = "done"
                /\ invoked = <<>>

\* A single-stack command given two stacks has ended with a count of two.
C17_Witness ==
    /\ verb \in SingleVerbs
    /\ pc = "done"
    /\ Len(requested) = 2
    /\ error = [kind |-> "StackCountError", count |-> 2]
    /\ invoked = <<>>

\* C20: when the caller gives no stacks, the empty string or `*`, the
\* request is the empty list and each of the three list queries returns
\* every configured stack, each once.
C20_EmptySelectsAll ==
    (pc = "answered" /\ query.name \in ListQueries) =>
        /\ (~query.arg.some \/ query.arg.text \in {<<>>, <<"*">>}) =>
               query.list = <<>>
        /\ query.list = <<>> =>
               /\ ~IsError(answer.error)
               /\ Enumerates(answer.stacks, Configured)

\* `*` is given to the forward query of a document of NumStacks stacks, one
\* of which depends on another.
C20_Witness ==
    /\ Answered("stacks_with_dependencies")
    /\ query.arg = Some(<<"*">>)
    /\ Len(answer.stacks) = NumStacks
    /\ \E k \in Configured : DeclaredDependencies(k) # {}

\* The errors of the configuration and of the selection.
SelectionErrors == {"UnknownStack", "DanglingDependency", "DependencyCycle",
                    "StackCountError"}

\* C18: a run that ends with UnknownStack, DanglingDependency,
\* DependencyCycle or StackCountError has spawned no process; restart, once
\* a `down` process was spawned, ends with none of these errors.
C18_SelectionErrorsBeforeSpawn ==
    /\ error.kind \in SelectionErrors => pc = "done" /\ invoked = <<>>
    /\ (verb = "restart" /\ invoked # <<>>) => error.kind \notin SelectionErrors

\* restart, given a name that is no stack, has ended before its `down`.
C18_Witness ==
    /\ pc = "done"
    /\ verb = "restart"
    /\ requested # <<>>
    /\ error = [kind |-> "UnknownStack", name |-> requested[1]]
    /\ invoked = <<>>
    /\ queue = <<>>

\* The name of a stack: the name its entry gives, its key when none is given.
NameGiven(k) == IF raw[k].name = "" THEN ToString(k) ELSE raw[k].name

\* The verb of the dispatch the i-th invocation belongs to: restart
\* dispatches `down` over the list kept in downed, then `up`.
VerbDispatched(i) ==
    IF verb = "restart"
    THEN IF i <= Len(downed) THEN "down" ELSE "up"
    ELSE verb

\* The trailing arguments Commands::run hands to that dispatch: the caller's,
\* behind `--wait` for up; `--wait` alone for the `up` of restart.
TrailingDispatched(i) ==
    IF verb = "up" THEN <<"--wait">> \o cli_args
    ELSE IF VerbDispatched(i) = "up" THEN <<"--wait">>
    ELSE cli_args

\* C19: every invocation runs the first token of the command template with
\* the arguments: the other tokens of the template, `-p` and the name of
\* its stack, the verb dispatched, the trailing arguments of the dispatch,
\* in this order; `-p` occurs once, followed by the name of the stack of
\* the invocation, however many stacks were processed before.
C19_InvocationLayout ==
    \A i \in 1..Len(invoked) :
        LET inv == invoked[i]
            flag == {j \in 1..Len(inv.args) : inv.args[j] = "-p"}
        IN  /\ inv.program = Head(config_command)
            /\ inv.args = Tail(config_command)
                              \o <<"-p", NameGiven(inv.stack)>>
                              \o <<VerbDispatched(i)>>
                              \o TrailingDispatched(i)
            /\ flag = {Len(config_command)}

\* The last stack of a teardown of all stacks, given a name by its author,
\* is invoked with trailing arguments of the caller.
C19_Witness ==
    /\ verb = "down"
    /\ cli_args # <<>>
    /\ Len(invoked) = NumStacks
    /\ raw[invoked[NumStacks].stack].name # ""
    /\ raw[invoked[1].stack].name # raw[invoked[NumStacks].stack].name

\* seq is in strictly ascending key order.
InKeyOrder(seq) == \A i, j \in 1..Len(seq) : i < j => seq[i] < seq[j]

\* C21: the no-closure query returns the stacks the request selects, each
\* once, in ascending key order: no dependency and no dependant of a
\* requested stack is added.
C21_SelectionVerbatim ==
    Answered("stacks") =>
        /\ ~IsError(answer.error)
        /\ Enumerates(answer.stacks, Selected(query.list))
        /\ InKeyOrder(answer.stacks)

\* Two stacks are requested in descending order; one depends on a stack
\* that is not requested, the other has a dependant that is not requested.
C21_Witness ==
    /\ Answered("stacks")
    /\ Len(query.list) = 2
    /\ query.list[1] > query.list[2]
    /\ answer.stacks = <<query.list[2], query.list[1]>>
    /\ \E k \in Range(query.list) :
           DeclaredDependencies(k) \ Range(query.list) # {}
    /\ \E k \in Range(query.list) :
           DeclaredDependants(k) \ Range(query.list) # {}

\* The request that holds the names of list once each in ascending order.
\* Two requests hold the same set of names exactly when they have the same
\* such request.
Canonical(list) == Ascending(Range(list))

\* C22: what a query returns depends on the set of names requested only:
\* a request, in whatever order and with whatever repetition, is given the
\* sequence of stacks the same query gives the request of its names once
\* each in ascending order, so two requests of the same names are given
\* the same sequence.
C22_SameNamesSameSequence ==
    (pc = "answered" /\ query.name \in Queries \ {"restart"}) =>
        QueryAnswer(stacks, query.name, Canonical(query.list)) = answer

\* The backward query is given two different stacks in descending order,
\* one a dependency of the other, and returns what it returns for the two
\* in the other order.
C22_Witness ==
    /\ Answered("stacks_with_dependants")
    /\ Len(query.list) = 2
    /\ query.list[1] > query.list[2]
    /\ query.list[1] \in DeclaredDependencies(query.list[2])
    /\ Len(answer.stacks) = NumStacks
    /\ stacks_with_dependants(stacks, reverse(query.list)) = answer

\* The arguments of an invocation behind the verb.
TrailingOf(inv) == SubSeq(inv.args, VerbAt + 1, Len(inv.args))

\* C23: up invokes stacks of the forward closure of the selection only,
\* each after the invoked stacks it depends on, each with the verb `up` and
\* the trailing arguments `--wait` followed by the caller's as given; when
\* up returns Ok(()) every stack of the closure was invoked, once.
C23_UpWaitsInDependencyOrder ==
    verb = "up" =>
        LET dispatched == [i \in 1..Len(invoked) |-> invoked[i].stack] IN
        /\ Range(dispatched) \subseteq ForwardClosure(Selected(requested))
        /\ NoDuplicates(dispatched)
        /\ InDependencyOrder(dispatched)
        /\ \A k \in Range(dispatched) :
               DeclaredDependencies(k) \subseteq Range(dispatched)
        /\ \A i \in 1..Len(invoked) :
               /\ invoked[i].args[VerbAt] = "up"
               /\ TrailingOf(invoked[i]) = <<"--wait">> \o cli_args
        /\ (pc = "done" /\ error = NoError) =>
               Range(dispatched) = ForwardClosure(Selected(requested))

\* up, given one stack and two arguments, has brought up all stacks, the
\* stack named last, a dependency before the stack sorting in front of it.
C23_Witness ==
    /\ verb = "up"
    /\ pc = "done"
    /\ error = NoError
    /\ Len(cli_args) = 2
    /\ Len(requested) = 1
    /\ Len(invoked) = NumStacks
    /\ invoked[NumStacks].stack = requested[1]
    /\ \E i \in 1..(NumStacks - 1) : invoked[i].stack > invoked[i + 1].stack

\* C24: once the document has loaded, the stack held under a key has that
\* key, and has the name its entry gives, or the key when the entry gives
\* none.
C24_KeyAndDefaultName ==
    (Loaded /\ error.kind \notin {"DanglingDependency", "DependencyCycle"}) =>
        /\ DOMAIN stacks = Configured
        /\ \A k \in Configured :
               /\ stacks[k].key = k
               /\ raw[k].name # "" => stacks[k].name = raw[k].name
               /\ raw[k].name = "" => stacks[k].name = ToString(k)

\* A loaded document in which one stack is given a name and another none.
C24_Witness ==
    /\ pc = "loaded"
    /\ \E a, b \in Configured :
           /\ raw[a].name # ""
           /\ stacks[a].name = raw[a].name
           /\ raw[b].name = ""
           /\ stacks[b].name = ToString(b)

\* The project an invocation names: the argument behind `-p`.
ProjectOf(inv) == inv.args[Len(config_command) + 1]

\* C27: two invocations of one dispatch that are made for different stacks
\* name different projects behind `-p`.
C27_DistinctProjects ==
    \A i, j \in 1..Len(invoked) :
        (VerbDispatched(i) = VerbDispatched(j)
            /\ invoked[i].stack # invoked[j].stack) =>
                ProjectOf(invoked[i]) # ProjectOf(invoked[j])

\* The invocations of the run that carry the verb v.
InvocationsOf(v) == {i \in 1..Len(invoked) : invoked[i].args[VerbAt] = v}

\* C28: in restart, once a `down` invocation has failed the run has ended
\* with the error of that invocation, the failed invocation is the last one
\* made, and no `up` invocation exists, whatever was torn down before.
C28_FailedDownStopsRestart ==
    \A i \in InvocationsOf("down") :
        (verb = "restart" /\ Failed(invoked[i])) =>
            /\ pc = "done"
            /\ i = Len(invoked)
            /\ InvocationsOf("up") = {}
            /\ error.kind = (IF invoked[i].status = "exit nonzero"
                             THEN "NonZeroExit" ELSE "SpawnError")
            /\ error.kind = "NonZeroExit" =>
                   /\ error.program = invoked[i].program
                   /\ error.args = invoked[i].args

\* A restart that has torn one stack down and has failed at the second.
C28_Witness ==
    /\ verb = "restart"
    /\ pc = "done"
    /\ Len(invoked) = 2
    /\ invoked[1].status = "exit 0"
    /\ invoked[1].args[VerbAt] = "down"
    /\ invoked[2].args[VerbAt] = "down"
    /\ Failed(invoked[2])
    /\ Len(queue) > 2

RECURSIVE ReferenceScan(_, _, _)
\* One scan of the reference algorithm: unplaced is what is left of the
\* descending sequence of the keys not placed when the scan began; a key is
\* appended when it is reached if its dependencies in K are all placed.
ReferenceScan(K, unplaced, placed) ==
    IF unplaced = <<>> THEN placed
    ELSE LET key    == Head(unplaced)
             needed == DeclaredDependencies(key) \cap K
         IN  ReferenceScan(K, Tail(unplaced),
                       IF needed \subseteq Range(placed)
                       THEN Append(placed, key) ELSE placed)

RECURSIVE ReferencePlacement(_, _)
\* The reference algorithm: scans are repeated until K is exhausted.
ReferencePlacement(K, placed) ==
    LET left == K \ Range(placed) IN
    IF left = {} THEN placed
    ELSE LET next == ReferenceScan(K, reverse(Ascending(left)), placed)
         IN  IF next = placed THEN placed
             ELSE ReferencePlacement(K, next)

\* C26: stacks_with_dependencies returns the sequence of the reference
\* algorithm applied to the forward closure of the selection.
C26_ReferencePlacement ==
    Answered("stacks_with_dependencies") =>
        /\ ~IsError(answer.error)
        /\ answer.stacks =
               ReferencePlacement(ForwardClosure(Selected(query.list)), <<>>)

\* A key placed in the scan that placed one of its dependencies, and a key
\* left for the second scan: the answer is neither ascending nor descending.
C26_Witness ==
    /\ Answered("stacks_with_dependencies")
    /\ Len(answer.stacks) = NumStacks
    /\ \E i \in 1..NumStacks - 1 :
           /\ answer.stacks[i] > answer.stacks[i + 1]
           /\ answer.stacks[i] \in DeclaredDependencies(answer.stacks[i + 1])
    /\ \E i \in 1..NumStacks - 1 : answer.stacks[i] < answer.stacks[i + 1]

\* A scan of the placement loop has come to its end.
ScanEnded == pc = "placing" /\ answer.todo = <<>> /\ answer.scans > 0

\* C25: in both closure queries, every scan of the placement loop places at
\* least one key more, the loop makes at most as many scans as the closure
\* has keys, and the query returns.
C25_PlacementTerminates ==
    /\ [](ScanEnded => Len(answer.stacks) > answer.before)
    /\ [](pc = "placing" => answer.scans <= Cardinality(answer.keys))
    /\ (pc = "placing") ~> (pc = "answered")

\* The forward query has returned after as many scans as there are stacks:
\* each scan placed one key.
C25_Witness ==
    /\ Answered("stacks_with_dependencies")
    /\ answer.scans = NumStacks
    /\ Len(answer.stacks) = NumStacks

====
